---- MODULE Spec2Model ----
(***************************************************************************)
(* A model of three-m2loader (src/M2Loader.js).                            *)
(*                                                                         *)
(* Spec      the SequenceManager of one loaded asset: the registration     *)
(*           calls made while the asset is built, then the playback API    *)
(*           (playSequence, stopSequence, stopAllSequences,                *)
(*           playGlobalSequences, stopGlobalSequences) interleaved with    *)
(*           the promise callbacks of the fetches playSequence issues.     *)
(* SpecList  listSequences() applied to bounded sequence tables.           *)
(* SpecTracks the same manager for an asset whose colour, texture          *)
(*           transform and texture weight definitions hold deferred tracks.*)
(* SpecLoad  one M2Loader.load: the fetch of the model file, parse with    *)
(*           the model parser, the texture and skin promises, the build.   *)
(* SpecTrack M2Loader._readTrack applied to bounded track descriptors.     *)
(* SpecChunks M2Loader._readChunks applied to bounded chunked files.       *)
(* SpecStatic isStaticTrack applied to bounded tracks.                     *)
(* SpecMips  the mip walk of BLPLoader.parse applied to bounded headers.   *)
(* SpecQuat  the compressed quaternion conversion of extractValues applied *)
(*           to every 16-bit word.                                         *)
(* SpecBuild the keyframe tracks _buildColors and _buildTextureTransforms  *)
(*           collect from bounded pairs of tracks.                         *)
(* SpecTextures M2Loader._loadTextures applied to bounded lists of texture *)
(*           definitions.                                                  *)
(* SpecParser the saveState / restoreState stack of the model parser under *)
(*           nested _read functions.                                       *)
(***************************************************************************)
EXTENDS Integers, Sequences, FiniteSets, Bags, TLC

(***************************************************************************)
(* Bounds of the model.                                                    *)
(***************************************************************************)
MaxAnimations == 2
MaxTracks == 1
MaxFetches == 2
MaxListLen == 3
MaxVariation == 1
MaxTextures == 2
MaxTables == 2
MaxOuterLength == 2
MaxInnerLength == 1
MaxChunks == 2
MaxSteps == 2
MaxTimestamps == 2
MaxDimension == 3
MaxMipPrefix == 3
MaxDefinitions == 3

(***************************************************************************)
(* Program constants.                                                      *)
(***************************************************************************)
M2_SEQUENCE_EMBEDDED_DATA == 32
M2_ANIMATION_LIST_LENGTH == 1726
M2_VERSION_THE_BURNING_CRUSADE == 263
M2_VERSION_WRATH_OF_THE_LICH_KING == 264
BLP_COLOR_ENCODING_COLOR_PALETTE == 1
BLP_PIXEL_FORMAT_PIXEL_DXT1 == 0
BLP_PIXEL_FORMAT_PIXEL_DXT3 == 1
BLP_PIXEL_FORMAT_PIXEL_DXT5 == 7
BLP_PIXEL_FORMAT_PIXEL_UNSPECIFIED == 8
BLP_PIXEL_FORMAT_PIXEL_BC5 == 11
MipSlots == 16

VARIABLES
    phase,                          \* "build" while M2Loader.parse assembles the group, "loaded" after onLoad
    sequences,                      \* SequenceManager.sequences: the M2Sequence table (id, variationIndex, flags)
    _sequenceMap,                   \* key -> set of animations {clip, root, flags}
    _globalSequenceMap,             \* global sequence index -> set of animations {clip, root}
    _mixers,                        \* root -> clips whose action is running on the root's AnimationMixer
    _globalMixers,                  \* root -> clips whose action is running on the root's global AnimationMixer
    _externalSequences,             \* key -> the data of the tracks registered for later hydration
    _externalSequencesInitialized,  \* key -> BOOLEAN, only for keys of non-embedded sequences
    resetClips,                     \* clips whose duration was recomputed by resetDuration() after hydration
    requests,                       \* bag of fetches whose response has not arrived
    buffers,                        \* bag of fetches whose response was ok and whose arrayBuffer() is pending
    stopRequested,                  \* history: keys stopped after their last play while a fetch was in flight
    lastOp,                         \* history: the call or callback that produced this state, and how it ended
    listResult,                     \* how the last listSequences() call ended, and the list it returned
    placeholderTracks,              \* deferred tracks built outside the skeleton: [owner, key, data]
    buffer,                         \* the model file, as a sequence of 4-byte words
    onErrorGiven,                   \* whether M2Loader.load was called with an onError callback
    version,                        \* header.version
    textureCount,                   \* number of texture definitions that have a file name
    loadPc,                         \* where M2Loader.load / M2Loader.parse stands
    offset,                         \* BinaryParser.offset of the model parser, in bytes
    chunkOffset,                    \* BinaryParser.chunkOffset of the model parser
    _savedOffsets,                  \* BinaryParser._savedOffsets of the model parser
    headerRead,                     \* whether _readHeader has read a field
    tablesRead,                     \* number of tables read after the header
    lastSeek,                       \* history: the last moveTo of the model parser and where it landed
    textures,                       \* texture index -> state of the promise of its BLPLoader.load
    allTextures,                    \* state of Promise.all over the texture promises
    reported,                       \* textures BLPLoader.parse reported as unsupported (console.error)
    skin,                           \* state of the promise of _loadSkin
    group,                          \* what the build step has produced
    rejection,                      \* the error the promise of M2Loader.parse was rejected with
    onLoadCalled,                   \* whether onLoad was invoked
    onErrorCalled,                  \* whether onError was invoked
    errorLogged,                    \* whether M2Loader.load logged the error with console.error
    trackHeader,                    \* the M2Track descriptor _readTrack is about to read
    track,                          \* the M2Track _readTrack returned, or how it ended
    call,                           \* the decoding function applied to one input, and that input
    returned,                       \* what that function returned, or how it ended
    frames                          \* the activations of the _read functions that use the model parser

managerVars == <<phase, sequences, _sequenceMap, _globalSequenceMap, _mixers, _globalMixers,
                 _externalSequences, _externalSequencesInitialized, resetClips, requests,
                 buffers, stopRequested, lastOp>>
listVars == <<listResult>>
loadVars == <<buffer, onErrorGiven, version, textureCount, loadPc, offset, chunkOffset, _savedOffsets,
              headerRead, tablesRead, lastSeek, textures, allTextures, reported, skin, group,
              rejection, onLoadCalled, onErrorCalled, errorLogged>>
trackVars == <<trackHeader, track>>
decodeVars == <<call, returned, frames>>
assetVars == <<placeholderTracks, loadVars, trackVars, decodeVars>>
vars == <<managerVars, listVars, assetVars>>

----
(***************************************************************************)
(* Helpers.                                                                *)
(***************************************************************************)
\* the animated objects of the modelled asset (the group for bone tracks, a material for
\* opacity and colour tracks)
Roots == {"group", "material"}

\* flags & bit, for a bit that is a power of two
BitAnd(flags, bit) == IF (flags \div bit) % 2 = 1 THEN bit ELSE 0

\* a JavaScript value used as a condition
Truthy(n) == n # 0

\* map.get( key ) === false: a missing key gives undefined, which is not false
GetIsFalse(map, key) == key \in DOMAIN map /\ map[key] = FALSE

computeSequenceKey(sequenceId, variationIndex) == <<sequenceId, variationIndex>>

KeyOf(sequence) == computeSequenceKey(sequence.id, sequence.variationIndex)

\* the sequence table of the modelled asset (two variations of one id) and the flag words
\* its sequences may carry; the asset has one global sequence (its duration)
AssetIds == <<5, 5>>
AssetVariations == <<0, 1>>
SequenceFlagValues == {1, M2_SEQUENCE_EMBEDDED_DATA}
AssetGlobalSequences == <<3000>>

isEmbeddedSequence(i) == BitAnd(sequences[i].flags, M2_SEQUENCE_EMBEDDED_DATA)

Keys == {KeyOf(sequences[i]) : i \in 1 .. Len(sequences)}

ExternalKeys == {KeyOf(sequences[i]) : i \in {j \in 1 .. Len(sequences) : ~Truthy(isEmbeddedSequence(j))}}

\* the AnimationClip objects the build creates: one per (sequence, root) and per (global sequence, root)
SequenceClip(i, root) == <<"sequence", i, root>>
GlobalClip(i, root) == <<"global", i, root>>

RegisteredAnimations ==
    Cardinality(UNION {_sequenceMap[k] : k \in DOMAIN _sequenceMap})
    + Cardinality(UNION {_globalSequenceMap[g] : g \in DOMAIN _globalSequenceMap})

InFlight == BagCardinality(requests) + BagCardinality(buffers)

InFlightFor(key) ==
    BagCardinality([f \in {g \in DOMAIN requests : g.key = key} |-> requests[f]])
    + BagCardinality([f \in {g \in DOMAIN buffers : g.key = key} |-> buffers[f]])

BagRemove(bag, f) == bag (-) SetToBag({f})

NoKey == <<>>
NotCalled == [end |-> "not called", list |-> <<>>]
NotRead == [end |-> "not read"]
NoCall == [fn |-> "none"]
\* no decoding function is being applied
DecodeIdle ==
    /\ call = NoCall
    /\ returned = NotRead
    /\ frames = <<>>
\* no track is being read
TrackIdle ==
    /\ trackHeader = [globalSequence |-> -1, timestampsLength |-> 0, valuesLength |-> 0,
                      length |-> 0, type |-> "fixed16"]
    /\ track = NotRead
\* how a call or a promise callback chain ended
Returned == "returned"
Fulfilled == "fulfilled"
Rejected == "rejected"
Op(name, key, end) == [op |-> name, key |-> key, end |-> end]

\* the history of stop requests, kept only for keys that still have a fetch in flight
StopHistory(stopped, reqs, bufs) ==
    {k \in stopped : \E f \in DOMAIN reqs \cup DOMAIN bufs : f.key = k}

----
(***************************************************************************)
(* M2Loader.load and M2Loader.parse: the model file is fetched, its magic, *)
(* header and tables are read with the model parser, the textures and the  *)
(* skin are loaded, and the build step makes the group.                    *)
(***************************************************************************)
\* model files, one 4-byte word per element: bare and MD21-wrapped containers, with a
\* wrong magic, and too short for the tables their header points to
BareFile == <<"MD20", "header", "table", "table">>
ChunkedFile == <<"MD21", "size", "MD20", "header", "table", "table">>
ModelFiles ==
    {BareFile, ChunkedFile,
     <<"BLP2", "header", "table", "table">>, <<"MD21", "size", "SKIN", "header", "table", "table">>,
     <<"MD20", "header", "table">>, <<"MD21", "size", "MD20", "header", "table">>}

\* the offsets of the tables, as the header states them (relative to the MD20 record)
TableOffsets == {8, 12}

RangeError == "RangeError"
InvalidMagic == "THREE.M2Loader: Invalid magic data"
FailedTexture == "THREE.M2Loader: Failed to load texture"
FailedSkin == "THREE.M2Loader: Failed to load skin file"
NoError == [message |-> "none", url |-> 0]
Error(message, url) == [message |-> message, url |-> url]
NoSeek == [target |-> -1, landed |-> -1]

\* DataView.getUint32 and friends at a byte offset: the word there, or a RangeError past the end
ReadWord(buf, at) == IF at \div 4 + 1 \in DOMAIN buf THEN buf[at \div 4 + 1] ELSE RangeError

\* BinaryParser.moveTo( offset ) of the unchecked variant: the chunk origin is not added
moveToAbsolute(target) == target

\* BinaryParser.moveTo( offset ): the new value of this.offset
moveTo(target) == target + chunkOffset

\* the variables of the load in the state M2Loader.parse has when it has read the header of
\* a file without textures
ParsedFile(file, headerVersion) ==
    /\ buffer = file
    /\ onErrorGiven = TRUE
    /\ version = headerVersion
    /\ textureCount = 0
    /\ loadPc = "tables"
    /\ offset = (IF file[1] = "MD21" THEN 8 ELSE 0) + 8
    /\ chunkOffset = IF file[1] = "MD21" THEN 8 ELSE 0
    /\ _savedOffsets = <<>>
    /\ headerRead = TRUE
    /\ tablesRead = 0
    /\ lastSeek = NoSeek
    /\ textures = <<>>
    /\ allTextures = "not created"
    /\ reported = {}
    /\ skin = "not issued"
    /\ group = "none"
    /\ rejection = NoError
    /\ onLoadCalled = FALSE
    /\ onErrorCalled = FALSE
    /\ errorLogged = FALSE

\* the same state when M2Loader.parse constructs the SequenceManager of a bare file
ParsedVersion(headerVersion) == ParsedFile(BareFile, headerVersion)

Parsed == ParsedVersion(M2_VERSION_WRATH_OF_THE_LICH_KING)

\* M2Loader.load( url, onLoad, onProgress, onError ): the FileLoader request is issued
load ==
    /\ buffer \in ModelFiles
    /\ onErrorGiven \in BOOLEAN
    /\ version \in {M2_VERSION_THE_BURNING_CRUSADE, M2_VERSION_WRATH_OF_THE_LICH_KING}
    /\ textureCount \in 0 .. MaxTextures
    /\ loadPc = "fetching"
    /\ offset = 0
    /\ chunkOffset = 0
    /\ _savedOffsets = <<>>
    /\ headerRead = FALSE
    /\ tablesRead = 0
    /\ lastSeek = NoSeek
    /\ textures = <<>>
    /\ allTextures = "not created"
    /\ reported = {}
    /\ skin = "not issued"
    /\ group = "none"
    /\ rejection = NoError
    /\ onLoadCalled = FALSE
    /\ onErrorCalled = FALSE
    /\ errorLogged = FALSE

\* the rest of the model does not move while the asset is loaded
LoadFrame == UNCHANGED <<managerVars, listVars, placeholderTracks, trackVars, decodeVars, buffer, onErrorGiven, version, textureCount>>

\* the promise of the async function parse is rejected: parse( buffer, url ).then( onLoad )
\* has no rejection handler, and the try / catch of load sees no exception
ParseRejected(error) ==
    /\ loadPc' = "rejected"
    /\ rejection' = error

\* FileLoader fails to fetch the model file: it calls the onError it was handed, if any
modelFetchFailed ==
    /\ loadPc = "fetching"
    /\ loadPc' = "failed"
    /\ onErrorCalled' = onErrorGiven
    /\ UNCHANGED <<offset, chunkOffset, _savedOffsets, headerRead, tablesRead, lastSeek, textures,
                   allTextures, reported, skin, group, rejection, onLoadCalled, errorLogged>>
    /\ LoadFrame

\* parse, without the test of the magic
parseMagicUnchecked ==
    /\ loadPc = "fetching"
    /\ LET first == ReadWord(buffer, 0)
           chunkedFile == first = "MD21"
           origin == IF chunkedFile THEN 8 ELSE 0
       IN  /\ offset' = origin + 4
           /\ chunkOffset' = origin
           /\ loadPc' = "header"
           /\ UNCHANGED rejection
    /\ UNCHANGED <<_savedOffsets, headerRead, tablesRead, lastSeek, textures, allTextures, reported,
                   skin, group, onLoadCalled, onErrorCalled, errorLogged>>
    /\ LoadFrame

\* the FileLoader callback calls parse: the magic is read, behind the MD21 magic and its
\* size field when the file is chunked
parseMagic ==
    /\ loadPc = "fetching"
    /\ LET first == ReadWord(buffer, 0)
           chunkedFile == first = "MD21"
           \* parser.offset += 4; parser.chunkOffset = parser.offset
           origin == IF chunkedFile THEN 4 + 4 ELSE 0
           magic == IF chunkedFile THEN ReadWord(buffer, origin) ELSE first
       IN  /\ offset' = origin + 4
           /\ chunkOffset' = origin
           /\ IF magic = RangeError THEN ParseRejected(Error(RangeError, 0))
              ELSE IF magic # "MD20" THEN ParseRejected(Error(InvalidMagic, 0))
              ELSE loadPc' = "header" /\ UNCHANGED rejection
    /\ UNCHANGED <<_savedOffsets, headerRead, tablesRead, lastSeek, textures, allTextures, reported,
                   skin, group, onLoadCalled, onErrorCalled, errorLogged>>
    /\ LoadFrame

\* the header fields are read where the magic ended
_readHeader ==
    /\ loadPc = "header"
    /\ headerRead' = TRUE
    /\ IF ReadWord(buffer, offset) = RangeError
       THEN ParseRejected(Error(RangeError, 0)) /\ UNCHANGED offset
       ELSE loadPc' = "tables" /\ offset' = offset + 4 /\ UNCHANGED rejection
    /\ UNCHANGED <<chunkOffset, _savedOffsets, tablesRead, lastSeek, textures, allTextures, reported,
                   skin, group, onLoadCalled, onErrorCalled, errorLogged>>
    /\ LoadFrame

\* one of the _read functions: saveState, moveTo the table, read it, restoreState
_readTable(target) ==
    /\ loadPc = "tables"
    /\ tablesRead < MaxTables
    /\ LET saved == Append(_savedOffsets, offset)
           landed == moveTo(target)
       IN  /\ lastSeek' = [target |-> target, landed |-> landed]
           /\ IF ReadWord(buffer, landed) = RangeError
              THEN /\ ParseRejected(Error(RangeError, 0))
                   /\ offset' = landed
                   /\ _savedOffsets' = saved
                   /\ UNCHANGED tablesRead
              ELSE /\ offset' = saved[Len(saved)]
                   /\ _savedOffsets' = SubSeq(saved, 1, Len(saved) - 1)
                   /\ tablesRead' = tablesRead + 1
                   /\ UNCHANGED <<loadPc, rejection>>
    /\ UNCHANGED <<chunkOffset, headerRead, textures, allTextures, reported, skin, group,
                   onLoadCalled, onErrorCalled, errorLogged>>
    /\ LoadFrame

\* _loadTextures: one BLPLoader.load per texture, then parse awaits Promise.all of them
_loadTextures ==
    /\ loadPc = "tables"
    /\ loadPc' = "awaitTextures"
    /\ textures' = [i \in 1 .. textureCount |-> "pending"]
    /\ allTextures' = IF textureCount = 0 THEN "fulfilled" ELSE "pending"
    /\ UNCHANGED <<offset, chunkOffset, _savedOffsets, headerRead, tablesRead, lastSeek, reported,
                   skin, group, rejection, onLoadCalled, onErrorCalled, errorLogged>>
    /\ LoadFrame

\* texture files: the magic, header.colorEncoding and header.preferredFormat of a BLP file
TextureFiles ==
    [magic : {"BLP2", "MD20"},
     colorEncoding : {BLP_COLOR_ENCODING_COLOR_PALETTE, 2},
     preferredFormat : {BLP_PIXEL_FORMAT_PIXEL_DXT1, 2, BLP_PIXEL_FORMAT_PIXEL_UNSPECIFIED}]

\* BLPLoader.parse: the texture it sets up (undefined when it only logs that the encoding or
\* the format is unsupported), whether it logged that, and whether it throws; the write to
\* texture.name throws a TypeError when no texture was set up
BLPParse(file) ==
    LET compressed == file.preferredFormat \in {BLP_PIXEL_FORMAT_PIXEL_DXT1, BLP_PIXEL_FORMAT_PIXEL_DXT3,
                                                BLP_PIXEL_FORMAT_PIXEL_DXT5, BLP_PIXEL_FORMAT_PIXEL_BC5}
        palette == /\ file.preferredFormat = BLP_PIXEL_FORMAT_PIXEL_UNSPECIFIED
                   /\ file.colorEncoding = BLP_COLOR_ENCODING_COLOR_PALETTE
        texture == IF compressed THEN "CompressedTexture"
                   ELSE IF palette THEN "DataTexture"
                   ELSE "undefined"
    IN  IF file.magic # "BLP2"
        THEN [texture |-> "undefined", logged |-> FALSE, throws |-> TRUE]
        ELSE [texture |-> texture, logged |-> texture = "undefined", throws |-> texture = "undefined"]

\* Promise.allSettled in place of Promise.all: a rejected texture does not reject the whole
PromiseAllSettled(all, promises) ==
    IF all # "pending" THEN all
    ELSE IF \A i \in DOMAIN promises : promises[i] # "pending" THEN "fulfilled"
    ELSE "pending"

\* Promise.all over the texture promises after one of them has settled
PromiseAll(all, promises) ==
    IF all # "pending" THEN all
    ELSE IF \E i \in DOMAIN promises : promises[i] = "rejected" THEN "rejected"
    ELSE IF \A i \in DOMAIN promises : promises[i] = "resolved" THEN "fulfilled"
    ELSE "pending"

\* the texture promise i settles; the first rejection is the error Promise.all rejects with
SettleTexture(i, state) ==
    /\ textures' = [textures EXCEPT ![i] = state]
    /\ allTextures' = PromiseAll(allTextures, textures')
    /\ rejection' = IF allTextures = "pending" /\ allTextures' = "rejected"
                    THEN Error(FailedTexture, i)
                    ELSE rejection

\* the FileLoader callback of BLPLoader.load: parse the file and resolve, or on an exception
\* call the onError of _loadTextures, which rejects the texture's promise
textureFetched(i, file) ==
    /\ i \in DOMAIN textures
    /\ textures[i] = "pending"
    /\ LET parsed == BLPParse(file)
       IN  /\ SettleTexture(i, IF parsed.throws THEN "rejected" ELSE "resolved")
           /\ reported' = IF parsed.logged THEN reported \cup {i} ELSE reported
    /\ UNCHANGED <<loadPc, offset, chunkOffset, _savedOffsets, headerRead, tablesRead, lastSeek,
                   skin, group, onLoadCalled, onErrorCalled, errorLogged>>
    /\ LoadFrame

\* the FileLoader of BLPLoader.load fails: the onError of _loadTextures rejects the promise
textureFetchFailed(i) ==
    /\ i \in DOMAIN textures
    /\ textures[i] = "pending"
    /\ SettleTexture(i, "rejected")
    /\ UNCHANGED <<loadPc, offset, chunkOffset, _savedOffsets, headerRead, tablesRead, lastSeek,
                   reported, skin, group, onLoadCalled, onErrorCalled, errorLogged>>
    /\ LoadFrame

\* parse resumes after await Promise.all( ... ): it calls _loadSkin and awaits its promise,
\* or its own promise is rejected with the error of the first rejected texture
awaitTextures ==
    /\ loadPc = "awaitTextures"
    /\ allTextures # "pending"
    /\ IF allTextures = "fulfilled"
       THEN /\ loadPc' = "awaitSkin"
            /\ skin' = IF version <= M2_VERSION_THE_BURNING_CRUSADE THEN "resolved" ELSE "pending"
       ELSE /\ loadPc' = "rejected"
            /\ UNCHANGED skin
    /\ UNCHANGED <<offset, chunkOffset, _savedOffsets, headerRead, tablesRead, lastSeek, textures,
                   allTextures, reported, group, rejection, onLoadCalled, onErrorCalled, errorLogged>>
    /\ LoadFrame

\* the FileLoader callback of M2SkinLoader.load: the skin is parsed and the promise resolved,
\* or the magic is not SKIN and the onError of _loadSkin rejects the promise
skinFetched(magic) ==
    /\ skin = "pending"
    /\ skin' = IF version >= M2_VERSION_WRATH_OF_THE_LICH_KING /\ magic # "SKIN" THEN "rejected" ELSE "resolved"
    /\ UNCHANGED <<loadPc, offset, chunkOffset, _savedOffsets, headerRead, tablesRead, lastSeek, textures,
                   allTextures, reported, group, rejection, onLoadCalled, onErrorCalled, errorLogged>>
    /\ LoadFrame

\* the FileLoader of M2SkinLoader.load fails: the onError of _loadSkin rejects the promise
skinFetchFailed ==
    /\ skin = "pending"
    /\ skin' = "rejected"
    /\ UNCHANGED <<loadPc, offset, chunkOffset, _savedOffsets, headerRead, tablesRead, lastSeek, textures,
                   allTextures, reported, group, rejection, onLoadCalled, onErrorCalled, errorLogged>>
    /\ LoadFrame

\* parse resumes after await this._loadSkin( ... ): the scene is built, the group returned
\* and handed to onLoad, or the promise of parse is rejected with the error of the skin
awaitSkin ==
    /\ loadPc = "awaitSkin"
    /\ skin # "pending"
    /\ IF skin = "resolved"
       THEN /\ group' = "built"
            /\ loadPc' = "delivered"
            /\ onLoadCalled' = TRUE
            /\ UNCHANGED rejection
       ELSE /\ ParseRejected(Error(FailedSkin, 0))
            /\ UNCHANGED <<group, onLoadCalled>>
    /\ UNCHANGED <<offset, chunkOffset, _savedOffsets, headerRead, tablesRead, lastSeek, textures,
                   allTextures, reported, skin, onErrorCalled, errorLogged>>
    /\ LoadFrame

----
(***************************************************************************)
(* SequenceManager: construction and registration.                         *)
(***************************************************************************)
\* the sequence tables of the modelled asset, one per choice of flags
AssetSequences ==
    {[i \in DOMAIN AssetIds |->
         [id |-> AssetIds[i], variationIndex |-> AssetVariations[i], flags |-> fl[i]]]
     : fl \in [DOMAIN AssetIds -> SequenceFlagValues]}

\* new SequenceManager( sequences, globalSequences, filename, resourcePath )
constructor ==
    /\ phase = "build"
    /\ _sequenceMap = [k \in Keys |-> {}]
    /\ _globalSequenceMap = [g \in DOMAIN AssetGlobalSequences |-> {}]
    /\ _mixers = <<>>
    /\ _globalMixers = <<>>
    /\ _externalSequences = [k \in ExternalKeys |-> <<>>]
    /\ _externalSequencesInitialized = [k \in ExternalKeys |-> FALSE]
    /\ resetClips = {}
    /\ requests = EmptyBag
    /\ buffers = EmptyBag
    /\ stopRequested = {}
    /\ lastOp = Op("constructor", NoKey, Returned)
    /\ listResult = NotCalled

addAnimationToSequence(clip, root, i) ==
    LET sequence == sequences[i]
        key == KeyOf(sequence)
    IN  /\ phase = "build"
        /\ clip = SequenceClip(i, root)
        /\ \A a \in _sequenceMap[key] : a.clip # clip
        /\ RegisteredAnimations < MaxAnimations
        /\ _sequenceMap' = [_sequenceMap EXCEPT
                               ![key] = @ \cup {[clip |-> clip, root |-> root, flags |-> sequence.flags]}]
        /\ _mixers' = IF root \in DOMAIN _mixers
                      THEN _mixers
                      ELSE [r \in DOMAIN _mixers \cup {root} |-> IF r = root THEN {} ELSE _mixers[r]]
        /\ lastOp' = Op("addAnimationToSequence", NoKey, Returned)
        /\ UNCHANGED <<assetVars, listResult, phase, sequences, _globalSequenceMap, _globalMixers, _externalSequences,
                       _externalSequencesInitialized, resetClips, requests, buffers,
                       stopRequested>>

addAnimationToGlobalSequence(clip, root, i) ==
    /\ phase = "build"
    /\ clip = GlobalClip(i, root)
    /\ \A a \in _globalSequenceMap[i] : a.clip # clip
    /\ RegisteredAnimations < MaxAnimations
    /\ _globalSequenceMap' = [_globalSequenceMap EXCEPT ![i] = @ \cup {[clip |-> clip, root |-> root]}]
    /\ _globalMixers' = IF root \in DOMAIN _globalMixers
                        THEN _globalMixers
                        ELSE [r \in DOMAIN _globalMixers \cup {root} |->
                                 IF r = root THEN {} ELSE _globalMixers[r]]
    /\ lastOp' = Op("addAnimationToGlobalSequence", NoKey, Returned)
    /\ UNCHANGED <<assetVars, listResult, phase, sequences, _sequenceMap, _mixers, _externalSequences,
                   _externalSequencesInitialized, resetClips, requests, buffers,
                   stopRequested>>

\* the track starts as the zero-filled placeholder _readTrack left for a non-embedded sequence
addExternalTrack(id, subId) ==
    LET key == computeSequenceKey(id, subId)
    IN  /\ phase = "build"
        /\ key \in DOMAIN _externalSequences
        /\ Len(_externalSequences[key]) < MaxTracks
        /\ _externalSequences' = [_externalSequences EXCEPT ![key] = Append(@, "zeros")]
        /\ lastOp' = Op("addExternalTrack", NoKey, Returned)
        /\ UNCHANGED <<assetVars, listResult, phase, sequences, _sequenceMap, _globalSequenceMap, _mixers, _globalMixers,
                       _externalSequencesInitialized, resetClips, requests, buffers,
                       stopRequested>>

\* M2Loader.load hands the finished group (and its sequence manager) to onLoad
onLoad ==
    /\ phase = "build"
    /\ phase' = "loaded"
    /\ lastOp' = Op("onLoad", NoKey, Returned)
    /\ UNCHANGED <<assetVars, listResult, sequences, _sequenceMap, _globalSequenceMap, _mixers, _globalMixers,
                   _externalSequences, _externalSequencesInitialized, resetClips, requests,
                   buffers, stopRequested>>

----
(***************************************************************************)
(* SequenceManager: playback of named sequences and the fetch callbacks.   *)
(***************************************************************************)
FetchOf(key, animation) == [key |-> key, clip |-> animation.clip, root |-> animation.root]

\* mixer.clipAction( clip ).play() for every animation of the set
PlayOn(mixers, animations) ==
    [r \in DOMAIN mixers |-> mixers[r] \cup {a.clip : a \in {b \in animations : b.root = r}}]

\* mixer.stopAllAction() on the mixer of every root of the set
StopOn(mixers, roots) ==
    [r \in DOMAIN mixers |-> IF r \in roots THEN {} ELSE mixers[r]]

\* mutant: the initialized flag is not consulted, every non-embedded animation is fetched
PlayedDirectlyEmbeddedOnly(key) ==
    {a \in _sequenceMap[key] : Truthy(BitAnd(a.flags, M2_SEQUENCE_EMBEDDED_DATA))}

\* the animations of a key that playSequence plays within the call
PlayedDirectly(key) ==
    {a \in _sequenceMap[key] :
        \/ Truthy(BitAnd(a.flags, M2_SEQUENCE_EMBEDDED_DATA))
        \/ ~GetIsFalse(_externalSequencesInitialized, key)}

\* mutant: a fetch in flight for the key is memoized, no second one is issued
FetchedOnce(key) ==
    IF InFlightFor(key) > 0 THEN {} ELSE _sequenceMap[key] \ PlayedDirectly(key)

\* the animations of a key for which playSequence issues a fetch
Fetched(key) == _sequenceMap[key] \ PlayedDirectly(key)

playSequence(id, variationIndex) ==
    LET key == computeSequenceKey(id, variationIndex)
    IN  /\ phase = "loaded"
        /\ key \in DOMAIN _sequenceMap
        /\ InFlight + Cardinality(Fetched(key)) <= MaxFetches
        /\ _mixers' = PlayOn(_mixers, PlayedDirectly(key))
        /\ requests' = requests (+) SetToBag({FetchOf(key, a) : a \in Fetched(key)})
        /\ stopRequested' = StopHistory(stopRequested \ {key}, requests', buffers)
        /\ lastOp' = Op("playSequence", key, Returned)
        /\ UNCHANGED <<assetVars, listResult, phase, sequences, _sequenceMap, _globalSequenceMap, _globalMixers,
                       _externalSequences, _externalSequencesInitialized, resetClips, buffers>>

\* fetch( path ) rejects (network error): both then-callbacks are skipped, nothing catches
fetchRejected(f) ==
    /\ f \in DOMAIN requests
    /\ requests' = BagRemove(requests, f)
    /\ stopRequested' = StopHistory(stopRequested, requests', buffers)
    /\ lastOp' = Op("fetchRejected", f.key, Rejected)
    /\ UNCHANGED <<assetVars, listResult, phase, sequences, _sequenceMap, _globalSequenceMap, _mixers, _globalMixers,
                   _externalSequences, _externalSequencesInitialized, resetClips, buffers>>

\* mutant: the early return is missing, the body of the failed response is decoded
fetchNotOkFallsThrough(f) ==
    /\ f \in DOMAIN requests
    /\ requests' = BagRemove(requests, f)
    /\ buffers' = buffers (+) SetToBag({f})
    /\ lastOp' = Op("fetchNotOk", f.key, Fulfilled)
    /\ UNCHANGED <<assetVars, listResult, phase, sequences, _sequenceMap, _globalSequenceMap, _mixers, _globalMixers,
                   _externalSequences, _externalSequencesInitialized, resetClips, stopRequested>>

\* response.ok === false: warn, return undefined; the second callback sees undefined and does nothing
fetchNotOk(f) ==
    /\ f \in DOMAIN requests
    /\ requests' = BagRemove(requests, f)
    /\ stopRequested' = StopHistory(stopRequested, requests', buffers)
    /\ lastOp' = Op("fetchNotOk", f.key, Fulfilled)
    /\ UNCHANGED <<assetVars, listResult, phase, sequences, _sequenceMap, _globalSequenceMap, _mixers, _globalMixers,
                   _externalSequences, _externalSequencesInitialized, resetClips, buffers>>

\* response.ok: return response.arrayBuffer()
fetchOk(f) ==
    /\ f \in DOMAIN requests
    /\ requests' = BagRemove(requests, f)
    /\ buffers' = buffers (+) SetToBag({f})
    /\ lastOp' = Op("fetchOk", f.key, Fulfilled)
    /\ UNCHANGED <<assetVars, listResult, phase, sequences, _sequenceMap, _globalSequenceMap, _mixers, _globalMixers,
                   _externalSequences, _externalSequencesInitialized, resetClips,
                   stopRequested>>

\* extractTimestamps / extractValues overwrite the data of every registered track of the key
_updateKeyframes(key) ==
    [_externalSequences EXCEPT ![key] = [j \in 1 .. Len(@) |-> "decoded"]]

\* the same on a buffer that ends early: the tracks before the failing read are overwritten
UpdateKeyframesTruncated(key, done) ==
    [_externalSequences EXCEPT ![key] = [j \in 1 .. Len(@) |-> IF j <= done THEN "decoded" ELSE @[j]]]

\* mutant: the clip is started but the key is never marked initialized
bufferResolvedFlagNotSet(f) ==
    /\ f \in DOMAIN buffers
    /\ buffers' = BagRemove(buffers, f)
    /\ _externalSequences' = _updateKeyframes(f.key)
    /\ resetClips' = resetClips \cup {f.clip}
    /\ _mixers' = PlayOn(_mixers, {f})
    /\ stopRequested' = StopHistory(stopRequested, requests, buffers')
    /\ lastOp' = Op("bufferResolved", f.key, Fulfilled)
    /\ UNCHANGED <<assetVars, listResult, phase, sequences, _sequenceMap, _globalSequenceMap, _globalMixers,
                   _externalSequencesInitialized, requests>>

\* mutant: the callback marks every deferred key initialized, not only the one fetched
bufferResolvedAllKeys(f) ==
    /\ f \in DOMAIN buffers
    /\ buffers' = BagRemove(buffers, f)
    /\ _externalSequences' = _updateKeyframes(f.key)
    /\ _externalSequencesInitialized' = [k \in DOMAIN _externalSequencesInitialized |-> TRUE]
    /\ resetClips' = resetClips \cup {f.clip}
    /\ _mixers' = PlayOn(_mixers, {f})
    /\ stopRequested' = StopHistory(stopRequested, requests, buffers')
    /\ lastOp' = Op("bufferResolved", f.key, Fulfilled)
    /\ UNCHANGED <<assetVars, listResult, phase, sequences, _sequenceMap, _globalSequenceMap, _globalMixers, requests>>

\* the buffer callback on a complete file
bufferResolved(f) ==
    /\ f \in DOMAIN buffers
    /\ buffers' = BagRemove(buffers, f)
    /\ _externalSequences' = _updateKeyframes(f.key)
    /\ _externalSequencesInitialized' = [_externalSequencesInitialized EXCEPT ![f.key] = TRUE]
    /\ resetClips' = resetClips \cup {f.clip}
    /\ _mixers' = PlayOn(_mixers, {f})
    /\ stopRequested' = StopHistory(stopRequested, requests, buffers')
    /\ lastOp' = Op("bufferResolved", f.key, Fulfilled)
    /\ UNCHANGED <<assetVars, listResult, phase, sequences, _sequenceMap, _globalSequenceMap, _globalMixers, requests>>

\* the buffer callback on a file too short for a registered track: the DataView read throws
bufferTruncated(f) ==
    /\ f \in DOMAIN buffers
    /\ \E done \in 0 .. Len(_externalSequences[f.key]) - 1 :
           _externalSequences' = UpdateKeyframesTruncated(f.key, done)
    /\ buffers' = BagRemove(buffers, f)
    /\ stopRequested' = StopHistory(stopRequested, requests, buffers')
    /\ lastOp' = Op("bufferTruncated", f.key, Rejected)
    /\ UNCHANGED <<assetVars, listResult, phase, sequences, _sequenceMap, _globalSequenceMap, _mixers, _globalMixers,
                   _externalSequencesInitialized, resetClips, requests>>

\* mutant: only the actions of the key's own clips are stopped
stopSequenceOwnClips(id, variationIndex) ==
    LET key == computeSequenceKey(id, variationIndex)
    IN  /\ phase = "loaded"
        /\ key \in DOMAIN _sequenceMap
        /\ _mixers' = [r \in DOMAIN _mixers |-> _mixers[r] \ {a.clip : a \in _sequenceMap[key]}]
        /\ stopRequested' = StopHistory(stopRequested \cup {key}, requests, buffers)
        /\ lastOp' = Op("stopSequence", key, Returned)
        /\ UNCHANGED <<assetVars, listResult, phase, sequences, _sequenceMap, _globalSequenceMap, _globalMixers,
                       _externalSequences, _externalSequencesInitialized, resetClips, requests,
                       buffers>>

stopSequence(id, variationIndex) ==
    LET key == computeSequenceKey(id, variationIndex)
    IN  /\ phase = "loaded"
        /\ key \in DOMAIN _sequenceMap
        /\ _mixers' = StopOn(_mixers, {a.root : a \in _sequenceMap[key]})
        /\ stopRequested' = StopHistory(stopRequested \cup {key}, requests, buffers)
        /\ lastOp' = Op("stopSequence", key, Returned)
        /\ UNCHANGED <<assetVars, listResult, phase, sequences, _sequenceMap, _globalSequenceMap, _globalMixers,
                       _externalSequences, _externalSequencesInitialized, resetClips, requests,
                       buffers>>

\* mutant: the loop runs over the global mixers as well
stopAllSequencesAndGlobal ==
    /\ phase = "loaded"
    /\ _mixers' = StopOn(_mixers, DOMAIN _mixers)
    /\ _globalMixers' = StopOn(_globalMixers, DOMAIN _globalMixers)
    /\ lastOp' = Op("stopAllSequences", NoKey, Returned)
    /\ UNCHANGED <<assetVars, listResult, phase, sequences, _sequenceMap, _globalSequenceMap,
                   _externalSequences, _externalSequencesInitialized, resetClips, requests,
                   buffers, stopRequested>>

stopAllSequences ==
    /\ phase = "loaded"
    /\ _mixers' = StopOn(_mixers, DOMAIN _mixers)
    /\ lastOp' = Op("stopAllSequences", NoKey, Returned)
    /\ UNCHANGED <<assetVars, listResult, phase, sequences, _sequenceMap, _globalSequenceMap, _globalMixers,
                   _externalSequences, _externalSequencesInitialized, resetClips, requests,
                   buffers, stopRequested>>

----
(***************************************************************************)
(* SequenceManager: playback of global sequences.                          *)
(***************************************************************************)
GlobalAnimations == UNION {_globalSequenceMap[g] : g \in DOMAIN _globalSequenceMap}

playGlobalSequences ==
    /\ phase = "loaded"
    /\ _globalMixers' = PlayOn(_globalMixers, GlobalAnimations)
    /\ lastOp' = Op("playGlobalSequences", NoKey, Returned)
    /\ UNCHANGED <<assetVars, listResult, phase, sequences, _sequenceMap, _globalSequenceMap, _mixers,
                   _externalSequences, _externalSequencesInitialized, resetClips, requests,
                   buffers, stopRequested>>

\* mutant: the mixer is looked up in _mixers instead of _globalMixers
stopGlobalSequencesNamedMixers ==
    /\ phase = "loaded"
    /\ _mixers' = StopOn(_mixers, {a.root : a \in GlobalAnimations})
    /\ lastOp' = Op("stopGlobalSequences", NoKey, Returned)
    /\ UNCHANGED <<assetVars, listResult, phase, sequences, _sequenceMap, _globalSequenceMap, _globalMixers,
                   _externalSequences, _externalSequencesInitialized, resetClips, requests,
                   buffers, stopRequested>>

stopGlobalSequences ==
    /\ phase = "loaded"
    /\ _globalMixers' = StopOn(_globalMixers, {a.root : a \in GlobalAnimations})
    /\ lastOp' = Op("stopGlobalSequences", NoKey, Returned)
    /\ UNCHANGED <<assetVars, listResult, phase, sequences, _sequenceMap, _globalSequenceMap, _mixers,
                   _externalSequences, _externalSequencesInitialized, resetClips, requests,
                   buffers, stopRequested>>

----
(***************************************************************************)
(* The specification of the sequence manager.                              *)
(***************************************************************************)
\* what the asset holds besides its sequence manager when the manager is constructed
AssetInit ==
    /\ placeholderTracks = {}
    /\ Parsed
    /\ TrackIdle
    /\ DecodeIdle

Init ==
    /\ sequences \in AssetSequences
    /\ constructor
    /\ AssetInit

Next ==
    \/ \E root \in Roots, i \in 1 .. Len(sequences) :
           addAnimationToSequence(SequenceClip(i, root), root, i)
    \/ \E root \in Roots, i \in DOMAIN _globalSequenceMap :
           addAnimationToGlobalSequence(GlobalClip(i, root), root, i)
    \/ \E i \in 1 .. Len(sequences) :
           addExternalTrack(sequences[i].id, sequences[i].variationIndex)
    \/ onLoad
    \/ \E k \in Keys : playSequence(k[1], k[2])
    \/ \E k \in Keys : stopSequence(k[1], k[2])
    \/ stopAllSequences
    \/ playGlobalSequences
    \/ stopGlobalSequences
    \/ \E f \in DOMAIN requests : fetchRejected(f)
    \/ \E f \in DOMAIN requests : fetchNotOk(f)
    \/ \E f \in DOMAIN requests : fetchOk(f)
    \/ \E f \in DOMAIN buffers : bufferResolved(f)
    \/ \E f \in DOMAIN buffers : bufferTruncated(f)

Spec == Init /\ [][Next]_vars

----
(***************************************************************************)
(* The specification of one load: M2Loader.load up to onLoad or the        *)
(* rejection of the promise of parse.                                      *)
(***************************************************************************)
LoadInit ==
    /\ sequences = <<>>
    /\ constructor
    /\ placeholderTracks = {}
    /\ TrackIdle
    /\ DecodeIdle
    /\ load

LoadNext ==
    \/ modelFetchFailed
    \/ parseMagic
    \/ _readHeader
    \/ \E target \in TableOffsets : _readTable(target)
    \/ _loadTextures
    \/ \E i \in 1 .. MaxTextures, file \in TextureFiles : textureFetched(i, file)
    \/ \E i \in 1 .. MaxTextures : textureFetchFailed(i)
    \/ awaitTextures
    \/ \E magic \in {"SKIN", "MD20"} : skinFetched(magic)
    \/ skinFetchFailed
    \/ awaitSkin

SpecLoad == LoadInit /\ [][LoadNext]_vars

----
(***************************************************************************)
(* M2Loader._readTrack: the timestamps and values of one M2Track, one      *)
(* array per sub-sequence; data of non-embedded sequences is deferred.     *)
(***************************************************************************)
TypeError == "TypeError"

\* the descriptors of a track: globalSequence, the outer counts of timestamps and values,
\* the length every inner descriptor declares, and the type of the values
TrackHeaders ==
    [globalSequence : {-1, 0},
     timestampsLength : 0 .. MaxOuterLength,
     valuesLength : 0 .. MaxOuterLength,
     length : 0 .. MaxInnerLength,
     type : {"fixed16", "vec3"}]

getItemSize(type) ==
    CASE type = "fixed16" -> 1
      [] type = "vec2" -> 2
      [] type = "vec3" -> 3
      [] type \in {"quat", "quatCompressed"} -> 4
      [] OTHER -> 0

\* the offset the inner descriptor i of the timestamps or of the values holds
InnerOffset(kind, i) == (IF kind = "timestamps" THEN 1000 ELSE 2000) + 100 * i

\* new Array( n ).fill( 0 )
Zeros(n) == [k \in 1 .. n |-> 0]

\* extractTimestamps / extractValues: n elements read from the buffer at the offset (the
\* element read is named by its position, which is never 0)
Extracted(n, at) == [k \in 1 .. n |-> at + k]

\* the variant that records a deferred descriptor for every sub-sequence
ExternalIndicesAll(count) == 1 .. count

\* the sub-sequences a deferred descriptor is recorded for: those of non-embedded sequences
ExternalIndices(count) == {i \in 1 .. count : ~Truthy(isEmbeddedSequence(i))}

\* track.timestamps or track.values: one array per sub-sequence
SubSequences(kind, count, length, itemSize) ==
    [i \in 1 .. count |->
        IF Truthy(isEmbeddedSequence(i))
        THEN Extracted(length * itemSize, InnerOffset(kind, i))
        ELSE Zeros(length * itemSize)]

\* the variant that also fails on the last sequence of the table
PastTableInclusive(count) == count >= Len(sequences)

\* sequenceManager.isEmbeddedSequence( i ) reads sequence.flags of this.sequences[ i ], which
\* is undefined past the end of the sequence table: a loop over count sub-sequences throws
PastTable(count) == count > Len(sequences)

ReadTrackResult(h) ==
    LET itemSize == getItemSize(h.type)
    IN  IF version < M2_VERSION_WRATH_OF_THE_LICH_KING
        THEN [end |-> Returned, timestamps |-> <<>>, values |-> <<>>,
              externalTimestamps |-> <<>>, externalValues |-> <<>>]
        ELSE IF PastTable(h.timestampsLength) \/ PastTable(h.valuesLength)
        THEN [end |-> TypeError]
        ELSE [end |-> Returned,
              timestamps |-> SubSequences("timestamps", h.timestampsLength, h.length, 1),
              values |-> SubSequences("values", h.valuesLength, h.length, itemSize),
              externalTimestamps |->
                  [i \in ExternalIndices(h.timestampsLength) |->
                      [length |-> h.length, offset |-> InnerOffset("timestamps", i)]],
              externalValues |->
                  [i \in ExternalIndices(h.valuesLength) |->
                      [length |-> h.length, offset |-> InnerOffset("values", i),
                       type |-> h.type, itemSize |-> itemSize]]]

_readTrack ==
    /\ track = NotRead
    /\ track' = ReadTrackResult(trackHeader)
    /\ UNCHANGED <<managerVars, listVars, placeholderTracks, loadVars, decodeVars, trackHeader>>

\* sequence tables of up to MaxOuterLength sequences, each embedded or not
TrackTables ==
    {[i \in 1 .. n |-> [id |-> 5, variationIndex |-> i - 1, flags |-> fl[i]]] :
        n \in 0 .. MaxOuterLength, fl \in [1 .. MaxOuterLength -> SequenceFlagValues]}

TrackInit ==
    /\ sequences \in TrackTables
    /\ constructor
    /\ placeholderTracks = {}
    /\ \E v \in {M2_VERSION_THE_BURNING_CRUSADE, M2_VERSION_WRATH_OF_THE_LICH_KING} : ParsedVersion(v)
    /\ trackHeader \in TrackHeaders
    /\ track = NotRead
    /\ DecodeIdle

TrackNext == _readTrack

SpecTrack == TrackInit /\ [][TrackNext]_vars

----
(***************************************************************************)
(* Decoding functions, each applied to one input drawn from a bounded set. *)
(***************************************************************************)
\* the state in which a decoding function is applied: a parsed asset without sequences
DecodeInit(calls) ==
    /\ sequences = <<>>
    /\ constructor
    /\ placeholderTracks = {}
    /\ Parsed
    /\ TrackIdle
    /\ call \in calls
    /\ returned = NotRead
    /\ frames = <<>>

\* the function is applied once
Apply(fn, value) ==
    /\ call.fn = fn
    /\ returned = NotRead
    /\ returned' = value
    /\ UNCHANGED <<managerVars, listVars, placeholderTracks, loadVars, trackVars, call, frames>>

(***************************************************************************)
(* M2Loader._readChunks: the scan of the (id, size) entries of a chunked   *)
(* file, then the TXID and SFID tables.                                    *)
(***************************************************************************)
\* the offset at which entry k of the file starts, every entry being an 8-byte header
\* followed by size bytes
RECURSIVE EntryStart(_, _)
EntryStart(entries, k) ==
    IF k = 1 THEN 0 ELSE EntryStart(entries, k - 1) + 8 + entries[k - 1].size

\* chunked files: up to MaxChunks entries, cut off at any multiple of 4 bytes, and the
\* numSkinProfiles field of the header
ChunkFiles ==
    LET layouts == UNION {[1 .. n -> [id : {"MD21", "TXID", "SFID"}, size : {0, 4, 8}]] : n \in 1 .. MaxChunks}
        lengths == {4 * w : w \in 0 .. 4 * MaxChunks}
    IN  {f \in [entries : layouts, byteLength : lengths, numSkinProfiles : {0, 1}] :
            f.byteLength <= EntryStart(f.entries, Len(f.entries) + 1)}

\* chunkMap.set( id, { start, end } )
MapSet(map, id, value) == [k \in DOMAIN map \cup {id} |-> IF k = id THEN value ELSE map[k]]

\* while ( parser.offset < buffer.byteLength ): readString( 4 ), readUInt32(), set, skip;
\* entry k is the one at the offset, and a read past the end of the buffer is a RangeError
RECURSIVE ScanChunks(_, _, _, _)
ScanChunks(file, k, at, chunkMap) ==
    LET start == at + 8
        end == start + file.entries[k].size
    IN  IF ~(at < file.byteLength) THEN [end |-> Returned, chunkMap |-> chunkMap]
        ELSE IF start > file.byteLength THEN [end |-> RangeError, chunkMap |-> chunkMap]
        ELSE ScanChunks(file, k + 1, end, MapSet(chunkMap, file.entries[k].id, [start |-> start, end |-> end]))

\* count uint32 read from start (for the TXID chunk while offset < txid.end, for the SFID
\* chunk numSkinProfiles of them): the RangeError of a read past the end of the buffer
ReadIds(file, start, count) ==
    IF count > 0 /\ start + 4 * count > file.byteLength
    THEN [end |-> RangeError, ids |-> 0]
    ELSE [end |-> Returned, ids |-> count]

ReadChunksResult(file) ==
    LET scan == ScanChunks(file, 1, 0, <<>>)
        chunkMap == scan.chunkMap
        none == [end |-> Returned, ids |-> 0]
        txid == IF "TXID" \in DOMAIN chunkMap
                THEN ReadIds(file, chunkMap["TXID"].start, (chunkMap["TXID"].end - chunkMap["TXID"].start) \div 4)
                ELSE none
        sfid == IF "SFID" \in DOMAIN chunkMap
                THEN ReadIds(file, chunkMap["SFID"].start, file.numSkinProfiles)
                ELSE none
    IN  IF scan.end # Returned THEN [end |-> scan.end, scanned |-> scan]
        ELSE IF txid.end # Returned \/ sfid.end # Returned THEN [end |-> RangeError, scanned |-> scan]
        ELSE [end |-> Returned, scanned |-> scan,
              data |-> [id \in DOMAIN chunkMap \cap {"TXID", "SFID"} |->
                           IF id = "TXID" THEN txid.ids ELSE sfid.ids]]

_readChunks == Apply("_readChunks", ReadChunksResult(call.file))

ChunksInit == DecodeInit({[fn |-> "_readChunks", file |-> f] : f \in ChunkFiles})

ChunksNext == _readChunks

SpecChunks == ChunksInit /\ [][ChunksNext]_vars

----
(***************************************************************************)
(* BinaryParser.saveState / restoreState under the _read functions: a      *)
(* table reader (_readColorDefinitions) saves the position, moves to its   *)
(* table and calls _readTrack per record; _readTrack saves and moves twice *)
(* (timestamps, then values) and calls extractTimestamps / extractValues   *)
(* per embedded sub-sequence, which save and move once more.               *)
(***************************************************************************)
\* what a reader calls while it reads its table, and how many saveState / restoreState
\* blocks it runs
Callee(fn) ==
    CASE fn = "_readColorDefinitions" -> "_readTrack"
      [] fn = "_readTrack" -> "extractTimestamps"
      [] OTHER -> "none"
Blocks(fn) == IF fn = "_readTrack" THEN 2 ELSE 1

Top == frames[Len(frames)]
SetTop(frame) == [frames EXCEPT ![Len(frames)] = frame]
ParserFrame ==
    UNCHANGED <<managerVars, listVars, placeholderTracks, trackVars, call, returned, buffer,
                onErrorGiven, version, textureCount, chunkOffset, headerRead, tablesRead, lastSeek,
                textures, allTextures, reported, skin, group, onLoadCalled, onErrorCalled, errorLogged>>

\* a reader is called: by M2Loader.parse, or by the reader that is reading its table
callReader(fn) ==
    /\ loadPc = "tables"
    /\ \/ frames = <<>> /\ fn = "_readColorDefinitions"
       \/ /\ frames # <<>>
          /\ Top.pc = "reading"
          /\ Top.steps < MaxSteps
          /\ fn = Callee(Top.fn)
    /\ frames' = (IF frames = <<>> THEN <<>> ELSE SetTop([Top EXCEPT !.steps = @ + 1]))
                 \o <<[fn |-> fn, depth |-> Len(_savedOffsets), savedAt |-> -1, pc |-> "entered",
                       block |-> 1, steps |-> 0]>>
    /\ UNCHANGED <<offset, _savedOffsets, loadPc, rejection>>
    /\ ParserFrame

\* BinaryParser.readUInt32 and friends: the position advances, or the DataView throws
readUInt32 ==
    /\ loadPc = "tables"
    /\ frames # <<>>
    /\ Top.pc \in {"entered", "reading"}
    /\ Top.steps < MaxSteps
    /\ IF ReadWord(buffer, offset) = RangeError
       THEN /\ ParseRejected(Error(RangeError, 0))
            /\ frames' = <<>>
            /\ UNCHANGED offset
       ELSE /\ offset' = offset + 4
            /\ frames' = SetTop([Top EXCEPT !.steps = @ + 1])
            /\ UNCHANGED <<loadPc, rejection>>
    /\ UNCHANGED _savedOffsets
    /\ ParserFrame

\* BinaryParser.saveState()
saveState ==
    /\ loadPc = "tables"
    /\ frames # <<>>
    /\ Top.pc = "entered"
    /\ _savedOffsets' = Append(_savedOffsets, offset)
    /\ frames' = SetTop([Top EXCEPT !.pc = "saved", !.savedAt = offset])
    /\ UNCHANGED <<offset, loadPc, rejection>>
    /\ ParserFrame

\* parser.moveTo( offset ) to the table of the reader
parserMoveTo(target) ==
    /\ loadPc = "tables"
    /\ frames # <<>>
    /\ Top.pc = "saved"
    /\ offset' = moveTo(target)
    /\ frames' = SetTop([Top EXCEPT !.pc = "reading"])
    /\ UNCHANGED <<_savedOffsets, loadPc, rejection>>
    /\ ParserFrame

\* a restoreState that takes the oldest saved position (Array.shift instead of Array.pop)
restoreStateShift ==
    /\ loadPc = "tables"
    /\ frames # <<>>
    /\ Top.pc = "reading"
    /\ offset' = _savedOffsets[1]
    /\ _savedOffsets' = SubSeq(_savedOffsets, 2, Len(_savedOffsets))
    /\ frames' = SetTop([Top EXCEPT !.pc = "restored"])
    /\ UNCHANGED <<loadPc, rejection>>
    /\ ParserFrame

\* BinaryParser.restoreState(): this.offset = this._savedOffsets.pop()
restoreState ==
    /\ loadPc = "tables"
    /\ frames # <<>>
    /\ Top.pc = "reading"
    /\ offset' = _savedOffsets[Len(_savedOffsets)]
    /\ _savedOffsets' = SubSeq(_savedOffsets, 1, Len(_savedOffsets) - 1)
    /\ frames' = SetTop([Top EXCEPT !.pc = "restored"])
    /\ UNCHANGED <<loadPc, rejection>>
    /\ ParserFrame

\* _readTrack goes on from its timestamps to its values
nextBlock ==
    /\ loadPc = "tables"
    /\ frames # <<>>
    /\ Top.pc = "restored"
    /\ Top.block < Blocks(Top.fn)
    /\ frames' = SetTop([Top EXCEPT !.pc = "entered", !.block = @ + 1, !.steps = 0])
    /\ UNCHANGED <<offset, _savedOffsets, loadPc, rejection>>
    /\ ParserFrame

\* the reader returns to its caller
return ==
    /\ loadPc = "tables"
    /\ frames # <<>>
    /\ Top.pc = "restored"
    /\ Top.block = Blocks(Top.fn)
    /\ frames' = SubSeq(frames, 1, Len(frames) - 1)
    /\ UNCHANGED <<offset, _savedOffsets, loadPc, rejection>>
    /\ ParserFrame

ParserInit ==
    /\ sequences = <<>>
    /\ constructor
    /\ placeholderTracks = {}
    /\ \E file \in {BareFile, ChunkedFile} : ParsedFile(file, M2_VERSION_WRATH_OF_THE_LICH_KING)
    /\ TrackIdle
    /\ DecodeIdle

ParserNext ==
    \/ \E fn \in {"_readColorDefinitions", "_readTrack", "extractTimestamps"} : callReader(fn)
    \/ readUInt32
    \/ saveState
    \/ \E target \in TableOffsets : parserMoveTo(target)
    \/ restoreState
    \/ nextBlock
    \/ return

SpecParser == ParserInit /\ [][ParserNext]_vars

----
(***************************************************************************)
(* isStaticTrack( track ): whether a track is the constant the build       *)
(* functions fold into the material instead of animating.                  *)
(***************************************************************************)
\* the variant that looks only at the first timestamp of the first sub-sequence
isStaticTrackFirstZero(t) ==
    /\ Len(t.timestamps) >= 1
    /\ Len(t.timestamps[1]) >= 1
    /\ t.timestamps[1][1] = 0

isStaticTrack(t) ==
    /\ Len(t.timestamps) = 1
    /\ Len(t.timestamps[1]) = 1
    /\ t.timestamps[1][1] = 0

\* arrays of up to n elements of S
ArraysUpTo(S, n) == UNION {[1 .. k -> S] : k \in 0 .. n}

\* tracks of up to MaxOuterLength sub-sequences of up to MaxTimestamps timestamps
StaticCandidates ==
    {[timestamps |-> ts] : ts \in ArraysUpTo(ArraysUpTo(0 .. 2, MaxTimestamps), MaxOuterLength)}

applyIsStaticTrack == Apply("isStaticTrack", [end |-> Returned, value |-> isStaticTrack(call.track)])

StaticInit == DecodeInit({[fn |-> "isStaticTrack", track |-> t] : t \in StaticCandidates})
StaticNext == applyIsStaticTrack
SpecStatic == StaticInit /\ [][StaticNext]_vars

----
(***************************************************************************)
(* BLPLoader.parse: the walk over the mip slots of the header.             *)
(***************************************************************************)
\* Math.floor( current / 2 ) of the variant that clamps the dimension to a minimum of 1
halveClamped(d) == IF d \div 2 = 0 THEN 1 ELSE d \div 2

\* Math.floor( currentWidth / 2 )
halve(d) == d \div 2

\* the loop over header.mipOffsets from slot i on, with the current width and height and the
\* mipmaps pushed so far; new Uint8Array( buffer, offset, size ) throws a RangeError for a
\* range that is not inside the buffer
RECURSIVE MipWalk(_, _, _, _, _)
MipWalk(file, i, currentWidth, currentHeight, mipmaps) ==
    IF i > Len(file.header.mipOffsets)
    THEN [end |-> Returned, mipmaps |-> mipmaps]
    ELSE LET at == file.header.mipOffsets[i]
             size == file.header.mipSizes[i]
         IN  IF at = 0 \/ currentWidth = 0 \/ currentHeight = 0
             THEN [end |-> Returned, mipmaps |-> mipmaps]
             ELSE IF at + size > file.byteLength
             THEN [end |-> RangeError, mipmaps |-> mipmaps]
             ELSE MipWalk(file, i + 1, halve(currentWidth), halve(currentHeight),
                          Append(mipmaps, [offset |-> at, size |-> size,
                                           width |-> currentWidth, height |-> currentHeight]))

\* header.width and header.height: small ones, and one that lasts for all the slots
Dimensions == (0 .. MaxDimension) \cup {2 ^ (MipSlots - 1)}

\* texture files: the buffer length and the header; the first slots hold any of three
\* offsets, the remaining ones all hold the same
MipFiles ==
    {[byteLength |-> n,
      header |-> [width |-> w, height |-> h,
                  mipOffsets |-> [i \in 1 .. MipSlots |-> IF i <= Len(first) THEN first[i] ELSE rest],
                  mipSizes |-> [i \in 1 .. MipSlots |-> 100]]] :
        n \in {250, 400}, w \in Dimensions, h \in Dimensions,
        first \in ArraysUpTo({0, 100, 200}, MaxMipPrefix), rest \in {0, 200}}

mipWalk ==
    Apply("mipWalk", MipWalk(call.file, 1, call.file.header.width, call.file.header.height, <<>>))

MipsInit == DecodeInit({[fn |-> "mipWalk", file |-> f] : f \in MipFiles})
MipsNext == mipWalk
SpecMips == MipsInit /\ [][MipsNext]_vars

----
(***************************************************************************)
(* extractValues, case 'quatCompressed': the conversion of the int16       *)
(* components of a compressed quaternion.                                  *)
(***************************************************************************)
\* BinaryParser.readInt16: the two bytes at the position as a two's complement number
readInt16(word) == IF word >= 2 ^ 15 THEN word - 2 ^ 16 ELSE word

\* the variant that divides the component as read
quatCompressedPlain(c) == [numerator |-> c, denominator |-> 32767]

\* x = ( x < 0 ? x + 32768 : x - 32767 ) / 32767, as a fraction
quatCompressed(c) == [numerator |-> IF c < 0 THEN c + 32768 ELSE c - 32767, denominator |-> 32767]

extractValues ==
    Apply("extractValues", [end |-> Returned, value |-> quatCompressed(readInt16(call.word))])

QuatInit == DecodeInit({[fn |-> "extractValues", type |-> "quatCompressed", word |-> w] : w \in 0 .. 2 ^ 16 - 1})
QuatNext == extractValues
SpecQuat == QuatInit /\ [][QuatNext]_vars

----
(***************************************************************************)
(* _buildColors and _buildTextureTransforms: the keyframe tracks collected *)
(* per sequence (data.tracks) and per global sequence (data.globalTracks)  *)
(* from the two tracks of a definition: color then alpha, translation then *)
(* rotation.                                                               *)
(***************************************************************************)
\* the tracks of a definition: globalSequence and the timestamps of each sub-sequence
BuildTracks ==
    [globalSequence : {-1, 0},
     timestamps : ArraysUpTo({<<>>, <<0>>, <<0, 1>>}, MaxOuterLength)]

\* array[ j ] of a sparse array, an empty array standing for undefined before the push
At(array, j) == IF j \in DOMAIN array THEN array[j] ELSE <<>>

\* the loop over the sub-sequences of one track from sub-sequence j on; property names the
\* keyframe track that is created
RECURSIVE CollectTracks(_, _, _, _)
CollectTracks(data, t, property, j) ==
    IF j > Len(t.timestamps)
    THEN data
    ELSE LET times == t.timestamps[j]
             next == IF Len(times) = 0
                     THEN [data EXCEPT !.tracks = MapSet(@, j, <<>>)]
                     ELSE IF t.globalSequence >= 0
                     THEN [data EXCEPT !.globalTracks =
                               MapSet(@, t.globalSequence, Append(At(@, t.globalSequence), property))]
                     ELSE [data EXCEPT !.tracks = MapSet(@, j, Append(At(@, j), property))]
         IN  CollectTracks(next, t, property, j + 1)

\* one track of the definition: a static track sets the constant, any other is collected
BuildTrack(data, t, property) ==
    IF isStaticTrack(t)
    THEN [data EXCEPT !.animated = [@ EXCEPT ![property] = FALSE]]
    ELSE CollectTracks(data, t, property, 1)

\* the data built for one definition from its first and its second track
BuildData(first, second, properties) ==
    LET data == [end |-> Returned, tracks |-> <<>>, globalTracks |-> <<>>,
                 animated |-> [p \in {properties[1], properties[2]} |-> TRUE]]
    IN  BuildTrack(BuildTrack(data, first, properties[1]), second, properties[2])

_buildColorsData ==
    Apply("_buildColors", BuildData(call.first, call.second, <<".color", ".opacity">>))

_buildTextureTransformsData ==
    Apply("_buildTextureTransforms", BuildData(call.first, call.second, <<".offset", ".rotation">>))

BuildInit ==
    DecodeInit({[fn |-> f, first |-> a, second |-> b] :
                   f \in {"_buildColors", "_buildTextureTransforms"}, a \in BuildTracks, b \in BuildTracks})
BuildNext ==
    \/ _buildColorsData
    \/ _buildTextureTransformsData
SpecBuild == BuildInit /\ [][BuildNext]_vars

----
(***************************************************************************)
(* M2Loader._loadTextures: the promises made for the texture definitions,  *)
(* which Promise.all turns into the textures array _buildObjects indexes   *)
(* with the entries of the texture lookup table.                           *)
(***************************************************************************)
\* the texture definitions of a model: each filename is empty or names a file
TextureDefinitions == ArraysUpTo([filename : {"", "a.blp", "b.blp"}], MaxDefinitions)

\* the filename _loadTextures ends up with for definition i: the one of the definition, else
\* the FileDataID of the TXID chunk, else the name of the model for the first definition
Filename(file, i) ==
    IF file.textureDefinitions[i].filename # "" THEN file.textureDefinitions[i].filename
    ELSE IF file.hasTXID THEN "<FileDataID>.blp"
    ELSE IF i = 1 THEN "<name>.blp"
    ELSE ""

\* the loop over the definitions from definition i on: a definition left without a filename
\* is passed over by continue, every other one pushes a promise
RECURSIVE LoadTextures(_, _, _)
LoadTextures(file, i, promises) ==
    IF i > Len(file.textureDefinitions)
    THEN promises
    ELSE IF Filename(file, i) = ""
    THEN LoadTextures(file, i + 1, promises)
    ELSE LoadTextures(file, i + 1, Append(promises, [definition |-> i, url |-> Filename(file, i)]))

\* textures = await Promise.all( this._loadTextures( ... ) ): one texture per promise, in order
_loadTexturesAll ==
    Apply("_loadTextures", [end |-> Returned, textures |-> LoadTextures(call.file, 1, <<>>)])

TexturesInit ==
    DecodeInit({[fn |-> "_loadTextures", file |-> [textureDefinitions |-> d, hasTXID |-> x]] :
                   d \in TextureDefinitions, x \in BOOLEAN})
TexturesNext == _loadTexturesAll
SpecTextures == TexturesInit /\ [][TexturesNext]_vars

----
(***************************************************************************)
(* Tracks of the colour, texture transform and texture weight definitions. *)
(* _readTrack leaves a zero-filled placeholder for every non-embedded      *)
(* sequence; the three build functions wrap it in a keyframe track and,    *)
(* unlike _buildSkeleton, never hand it to addExternalTrack.               *)
(***************************************************************************)
\* a keyframe track for sequence j made from the placeholder of a definition record
PlaceholderTrack(owner, j) ==
    /\ phase = "build"
    /\ ~Truthy(isEmbeddedSequence(j))
    /\ placeholderTracks' = placeholderTracks \cup {[owner |-> owner, key |-> KeyOf(sequences[j]), data |-> "zeros"]}
    /\ placeholderTracks' # placeholderTracks
    /\ lastOp' = Op(owner, NoKey, Returned)
    /\ UNCHANGED <<loadVars, trackVars, decodeVars, listResult, phase, sequences, _sequenceMap, _globalSequenceMap, _mixers,
                   _globalMixers, _externalSequences, _externalSequencesInitialized, resetClips, requests,
                   buffers, stopRequested>>

_buildColors(j) == PlaceholderTrack("_buildColors", j)

_buildTextureTransforms(j) == PlaceholderTrack("_buildTextureTransforms", j)

_buildTextureWeights(j) == PlaceholderTrack("_buildTextureWeights", j)

\* an asset with one deferred sequence
TracksInit ==
    /\ sequences = <<[id |-> 5, variationIndex |-> 0, flags |-> 1]>>
    /\ constructor
    /\ AssetInit

TracksNext ==
    \/ \E j \in 1 .. Len(sequences) : _buildColors(j)
    \/ \E j \in 1 .. Len(sequences) : _buildTextureTransforms(j)
    \/ \E j \in 1 .. Len(sequences) : _buildTextureWeights(j)
    \/ Next

SpecTracks == TracksInit /\ [][TracksNext]_vars

----
(***************************************************************************)
(* SequenceManager.listSequences, and the specification that applies it to *)
(* bounded sequence tables.                                                *)
(***************************************************************************)
Undefined == "<undefined>"

\* M2_ANIMATION_LIST[ id ]: the names of ids 3 and 5 as the table has them, any other index
\* below the table's length has a name, an index past its end gives undefined
AnimationName(id) ==
    IF id \in 0 .. M2_ANIMATION_LIST_LENGTH - 1
    THEN CASE id = 3 -> "Stop"
           [] id = 5 -> "Run"
           [] OTHER -> "Named"
    ELSE Undefined

compareId(a, b) == a.id - b.id

\* Array.prototype.sort with compareId: a stable sort, here by insertion
RECURSIVE InsertById(_, _)
InsertById(list, e) ==
    IF list = <<>> THEN <<e>>
    ELSE IF compareId(e, Head(list)) < 0 THEN <<e>> \o list
    ELSE <<Head(list)>> \o InsertById(Tail(list), e)

RECURSIVE SortById(_)
SortById(list) ==
    IF list = <<>> THEN <<>>
    ELSE InsertById(SortById(SubSeq(list, 1, Len(list) - 1)), list[Len(list)])

\* the loop of listSequences over the first n sequences: the list so far, or the TypeError
\* of the assignment to the const binding "name" when an id has no name
RECURSIVE ListLoop(_, _)
ListLoop(seqs, n) ==
    IF n = 0 THEN [end |-> Returned, list |-> <<>>]
    ELSE LET before == ListLoop(seqs, n - 1)
             sequence == seqs[n]
             name == AnimationName(sequence.id)
         IN  IF before.end # Returned THEN before
             ELSE IF sequence.variationIndex > 0 THEN before
             ELSE IF name = Undefined THEN [end |-> "TypeError", list |-> <<>>]
             ELSE [end |-> Returned, list |-> Append(before.list, [id |-> sequence.id, name |-> name])]

ListSequencesResult(seqs) ==
    LET looped == ListLoop(seqs, Len(seqs))
    IN  IF looped.end = Returned
        THEN [end |-> Returned, list |-> SortById(looped.list)]
        ELSE looped

listSequences ==
    /\ listResult = NotCalled
    /\ listResult' = ListSequencesResult(sequences)
    /\ lastOp' = Op("listSequences", NoKey, listResult'.end)
    /\ UNCHANGED <<assetVars, phase, sequences, _sequenceMap, _globalSequenceMap, _mixers, _globalMixers,
                   _externalSequences, _externalSequencesInitialized, resetClips, requests,
                   buffers, stopRequested>>

\* the ids a sequence table may hold: two named ones and the first id past the name table
ListIds == {3, 5, M2_ANIMATION_LIST_LENGTH}

\* sequence tables of up to MaxListLen sequences with pairwise distinct (id, variation) keys
ListTables ==
    LET entries == [id : ListIds, variationIndex : 0 .. MaxVariation, flags : {M2_SEQUENCE_EMBEDDED_DATA}]
    IN  {t \in UNION {[1 .. n -> entries] : n \in 0 .. MaxListLen} :
            \A i, j \in DOMAIN t : KeyOf(t[i]) = KeyOf(t[j]) => i = j}

ListInit ==
    /\ sequences \in ListTables
    /\ constructor
    /\ AssetInit

ListNext == listSequences

SpecList == ListInit /\ [][ListNext]_vars

----
(***************************************************************************)
(* Vocabulary of the claims about the sequence manager.                    *)
(***************************************************************************)
\* the key belongs to a sequence whose embedded-data flag is set
EmbeddedKey(key) ==
    \E i \in 1 .. Len(sequences) :
        KeyOf(sequences[i]) = key /\ Truthy(BitAnd(sequences[i].flags, M2_SEQUENCE_EMBEDDED_DATA))

\* the external data of the key was hydrated by a successful fetch
HydratedKey(key) ==
    key \in DOMAIN _externalSequencesInitialized /\ _externalSequencesInitialized[key]

ReadyKey(key) == EmbeddedKey(key) \/ HydratedKey(key)

RootsOf(key) == {a.root : a \in _sequenceMap[key]}

Playing(animation) == animation.clip \in _mixers[animation.root]

AllDecoded(key) == \A j \in 1 .. Len(_externalSequences[key]) : _externalSequences[key][j] = "decoded"

Called(name, key) == lastOp = Op(name, key, Returned)

----
(***************************************************************************)
(* C1. playSequence on a ready key (embedded, or hydrated by an earlier    *)
(* successful play) starts the clip of every animation registered under    *)
(* the key within the call, and issues no fetch.                           *)
(***************************************************************************)
C1_ReadyPlayStartsAll ==
    [][\A k \in Keys :
          (ReadyKey(k) /\ Called("playSequence", k)')
          => /\ \A a \in _sequenceMap[k] : a.clip \in _mixers'[a.root]
             /\ requests' = requests
             /\ buffers' = buffers]_vars

\* a hydrated key with two animations was played: both clips run, one of them never started
\* by a fetch callback of its own (its duration was never reset), and nothing is in flight
C1_Witness ==
    \E k \in Keys :
        /\ Called("playSequence", k)
        /\ HydratedKey(k)
        /\ Cardinality(_sequenceMap[k]) = 2
        /\ \A a \in _sequenceMap[k] : Playing(a)
        /\ \E a \in _sequenceMap[k] : a.clip \notin resetClips
        /\ InFlight = 0

(***************************************************************************)
(* C2. No clip of a non-embedded key is playing while the key is not       *)
(* ready: when a clip of such a key runs, the key is marked initialized    *)
(* and every track registered for it holds decoded data.                   *)
(***************************************************************************)
C2_PlayingImpliesHydrated ==
    \A k \in Keys :
        \A a \in _sequenceMap[k] :
            (~EmbeddedKey(k) /\ Playing(a)) => (HydratedKey(k) /\ AllDecoded(k))

\* a buffer callback has just hydrated a key with a registered track and started its clip
C2_Witness ==
    \E k \in Keys :
        /\ lastOp = Op("bufferResolved", k, Fulfilled)
        /\ ~EmbeddedKey(k)
        /\ Len(_externalSequences[k]) > 0
        /\ \E a \in _sequenceMap[k] : Playing(a)

(***************************************************************************)
(* C3. A non-OK response leaves everything as it was: the ready flags, the *)
(* track data and the running actions are unchanged, no buffer callback is *)
(* scheduled, and the promise chain ends fulfilled (nothing is thrown).    *)
(***************************************************************************)
C3_FailedFetchIsNoOp ==
    [][lastOp'.op = "fetchNotOk"
       => /\ _externalSequencesInitialized' = _externalSequencesInitialized
          /\ _externalSequences' = _externalSequences
          /\ _mixers' = _mixers
          /\ _globalMixers' = _globalMixers
          /\ resetClips' = resetClips
          /\ buffers' = buffers
          /\ lastOp'.end = Fulfilled]_vars

\* the only fetch of a key failed: the key is not ready, none of its clips runs
C3_Witness ==
    \E k \in Keys :
        /\ lastOp = Op("fetchNotOk", k, Fulfilled)
        /\ _sequenceMap[k] # {}
        /\ ~ReadyKey(k)
        /\ InFlightFor(k) = 0
        /\ \A a \in _sequenceMap[k] : ~Playing(a)
        /\ ~AllDecoded(k)

(***************************************************************************)
(* C4. After playSequence on a not yet hydrated key and then stopSequence  *)
(* on the same key while the fetch is in flight, the completion of the     *)
(* fetch starts no playback for the key.                                   *)
(***************************************************************************)
C4_NoLateStart ==
    [][\A k \in Keys :
          (k \in stopRequested /\ lastOp' = Op("bufferResolved", k, Fulfilled))
          => \A a \in _sequenceMap[k] : a.clip \in _mixers'[a.root] => a.clip \in _mixers[a.root]]_vars

(***************************************************************************)
(* C5. One call of playSequence on a not yet hydrated non-embedded key     *)
(* that animates at least one target issues exactly one fetch, however     *)
(* many animations are registered under the key.                           *)
(***************************************************************************)
C5_OneFetchPerCall ==
    [][\A k \in Keys :
          (/\ Called("playSequence", k)'
           /\ ~ReadyKey(k)
           /\ _sequenceMap[k] # {})
          => BagCardinality(requests') = BagCardinality(requests) + 1]_vars

(***************************************************************************)
(* C6. A playSequence call on a non-embedded key that is not ready while a *)
(* fetch of an earlier call on the key is still in flight issues fetches   *)
(* of its own: the number of fetches in flight for the key grows.          *)
(***************************************************************************)
C6_NoDeduplication ==
    [][\A k \in Keys :
          (/\ Called("playSequence", k)'
           /\ ~ReadyKey(k)
           /\ InFlightFor(k) > 0)
          => /\ InFlightFor(k)' > InFlightFor(k)
             /\ BagCardinality(requests') = BagCardinality(requests) + Cardinality(_sequenceMap[k])]_vars

\* the same clip of the same key is being fetched twice at once
C6_Witness ==
    \E k \in Keys :
        /\ Called("playSequence", k)
        /\ ~ReadyKey(k)
        /\ \E f \in DOMAIN requests : f.key = k /\ requests[f] >= 2

(***************************************************************************)
(* C7. stopSequence stops every running action on the mixer of every root  *)
(* that has an animation under the key, whichever sequence the action      *)
(* belongs to; the mixers of the other roots are left as they were.        *)
(***************************************************************************)
C7_StopIsPerRoot ==
    [][\A k \in Keys :
          Called("stopSequence", k)'
          => \A r \in DOMAIN _mixers :
                 _mixers'[r] = IF r \in RootsOf(k) THEN {} ELSE _mixers[r]]_vars

\* a key with a target was stopped while an action on a root without a clip of the key runs on
C7_Witness ==
    \E k \in Keys :
        /\ Called("stopSequence", k)
        /\ RootsOf(k) # {}
        /\ \E r \in DOMAIN _mixers \ RootsOf(k) : _mixers[r] # {}

(***************************************************************************)
(* C8. After stopAllSequences no mixer of a named-sequence root has a      *)
(* running action, and the running global-sequence actions are exactly     *)
(* those that ran before the call.                                         *)
(***************************************************************************)
C8_StopAllKeepsGlobal ==
    [][Called("stopAllSequences", NoKey)'
       => /\ \A r \in DOMAIN _mixers' : _mixers'[r] = {}
          /\ _globalMixers' = _globalMixers]_vars

\* stopAllSequences ran on an asset with named targets while a global sequence is playing
C8_Witness ==
    /\ Called("stopAllSequences", NoKey)
    /\ DOMAIN _mixers # {}
    /\ \E r \in DOMAIN _globalMixers : _globalMixers[r] # {}

(***************************************************************************)
(* C9. playGlobalSequences and stopGlobalSequences leave the running       *)
(* actions of every named-sequence root, the ready flags, the track data   *)
(* and the fetches in flight as they were.                                 *)
(***************************************************************************)
C9_GlobalLeavesNamed ==
    [][(Called("playGlobalSequences", NoKey)' \/ Called("stopGlobalSequences", NoKey)')
       => /\ _mixers' = _mixers
          /\ _externalSequencesInitialized' = _externalSequencesInitialized
          /\ _externalSequences' = _externalSequences
          /\ resetClips' = resetClips
          /\ requests' = requests
          /\ buffers' = buffers]_vars

\* the global sequences were stopped on a root that also runs a named-sequence action,
\* while a fetch of a named sequence is in flight
C9_Witness ==
    /\ Called("stopGlobalSequences", NoKey)
    /\ InFlight > 0
    /\ \E r \in DOMAIN _mixers \cap DOMAIN _globalMixers : _mixers[r] # {}

----
(***************************************************************************)
(* Vocabulary of the claims about listSequences.                           *)
(***************************************************************************)
ListedIds == [n \in 1 .. Len(listResult.list) |-> listResult.list[n].id]

\* the ids of the sequences of the table whose variationIndex is 0
DefaultIds == {sequences[i].id : i \in {j \in 1 .. Len(sequences) : sequences[j].variationIndex = 0}}

StrictlyAscending(ids) == \A m, n \in 1 .. Len(ids) : m < n => ids[m] < ids[n]

ListCalled == listResult # NotCalled

TableIs(ids, variations) ==
    /\ Len(sequences) = Len(ids)
    /\ \A i \in 1 .. Len(ids) :
           sequences[i].id = ids[i] /\ sequences[i].variationIndex = variations[i]

(***************************************************************************)
(* C10. listSequences returns one entry per distinct sequence id, taken    *)
(* from the variation-0 sequences only, in ascending order of id; for ids  *)
(* [5,5,3] with variations [0,1,0] it returns the ids [3,5].               *)
(***************************************************************************)
C10_ListSequences ==
    ListCalled
    => /\ listResult.end = Returned
       /\ StrictlyAscending(ListedIds)
       /\ {ListedIds[n] : n \in 1 .. Len(ListedIds)} = DefaultIds
       /\ TableIs(<<5, 5, 3>>, <<0, 1, 0>>) => ListedIds = <<3, 5>>

\* the part of C10 that the code keeps: what holds whenever every variation-0 id has a name
C10_NamedIdsListed ==
    (ListCalled /\ \A id \in DefaultIds : AnimationName(id) # Undefined)
    => /\ listResult.end = Returned
       /\ StrictlyAscending(ListedIds)
       /\ {ListedIds[n] : n \in 1 .. Len(ListedIds)} = DefaultIds
       /\ TableIs(<<5, 5, 3>>, <<0, 1, 0>>) => ListedIds = <<3, 5>>

\* the example of C10 has been listed
C10_ExampleListed ==
    ListCalled /\ TableIs(<<5, 5, 3>>, <<0, 1, 0>>) /\ ListedIds = <<3, 5>>

(***************************************************************************)
(* C11. listSequences on a table holding an id without a name returns      *)
(* normally, and the entry of every such variation-0 id has the empty      *)
(* string as its name.                                                     *)
(***************************************************************************)
C11_UnknownIdEmptyName ==
    ListCalled
    => /\ listResult.end = Returned
       /\ \A id \in DefaultIds :
              AnimationName(id) = Undefined
              => \E n \in 1 .. Len(listResult.list) :
                     listResult.list[n].id = id /\ listResult.list[n].name = ""

(***************************************************************************)
(* C12. Once a key is hydrated, every deferred track of the key holds      *)
(* decoded data, whether it was registered by the skeleton or built from a *)
(* colour, texture transform or texture weight definition.                 *)
(***************************************************************************)
C12_AllOwnersHydrated ==
    \A k \in ExternalKeys :
        HydratedKey(k)
        => /\ AllDecoded(k)
           /\ \A t \in placeholderTracks : t.key = k => t.data = "decoded"

----
(***************************************************************************)
(* Vocabulary of the claims about the load.                                *)
(***************************************************************************)
\* the file starts with the MD21 magic
Chunked(file) == file[1] = "MD21"

\* the magic of the model record: the first word, or the word behind the MD21 magic and size
ResolvedMagic(file) == IF Chunked(file) THEN file[3] ELSE file[1]

\* the model file has arrived and the FileLoader callback has run
ParseStarted == loadPc \notin {"fetching", "failed"}

(***************************************************************************)
(* C13. Once parse has run on a file whose resolved magic is not MD20, its *)
(* promise is rejected with the invalid-magic error, no header field has   *)
(* been read, nothing was fetched or built and onLoad was not called.      *)
(***************************************************************************)
C13_InvalidMagicFails ==
    (ParseStarted /\ ResolvedMagic(buffer) # "MD20")
    => /\ loadPc = "rejected"
       /\ rejection = Error(InvalidMagic, 0)
       /\ ~headerRead
       /\ textures = <<>> /\ skin = "not issued"
       /\ group = "none" /\ ~onLoadCalled

C13_Witness ==
    /\ Chunked(buffer)
    /\ ResolvedMagic(buffer) = "SKIN"
    /\ loadPc = "rejected"
    /\ rejection.message = InvalidMagic

(***************************************************************************)
(* C14. When the load has failed after the model file was fetched, onError *)
(* has been invoked, or the error logged when no onError was given, and    *)
(* onLoad has not been invoked.                                            *)
(***************************************************************************)
C14_FailureReachesLoad ==
    loadPc = "rejected"
    => /\ IF onErrorGiven THEN onErrorCalled ELSE errorLogged
       /\ ~onLoadCalled

(***************************************************************************)
(* C15. A texture reported as unsupported does not abort the load: the     *)
(* promise of parse is never rejected with the error of such a texture.    *)
(***************************************************************************)
C15_UnsupportedTextureNotFatal ==
    (loadPc = "rejected" /\ rejection.message = FailedTexture)
    => rejection.url \notin reported

(***************************************************************************)
(* C16. The skin fetch does not wait for the textures: while a texture     *)
(* fetch of a model with an external skin is pending, the skin fetch has   *)
(* been issued.                                                            *)
(***************************************************************************)
C16_SkinNotAfterTextures ==
    (/\ version > M2_VERSION_THE_BURNING_CRUSADE
     /\ \E i \in DOMAIN textures : textures[i] = "pending")
    => skin # "not issued"

(***************************************************************************)
(* C17. The group is built and delivered only when every texture promise   *)
(* and the skin promise are resolved; with one of them rejected or         *)
(* pending there is no group and onLoad has not been called.               *)
(***************************************************************************)
C17_CombineAfterAllInputs ==
    (group # "none" \/ onLoadCalled)
    => /\ DOMAIN textures = 1 .. textureCount
       /\ \A i \in DOMAIN textures : textures[i] = "resolved"
       /\ skin = "resolved"
       /\ group = "built"

C17_Witness ==
    /\ textureCount > 0
    /\ version > M2_VERSION_THE_BURNING_CRUSADE
    /\ group = "built"
    /\ onLoadCalled

(***************************************************************************)
(* C18. After the header is parsed chunkOffset is 8 for an MD21-wrapped    *)
(* file, and every seek of the model parser lands at its target plus that  *)
(* origin; for a bare MD20 file chunkOffset is 0 throughout.               *)
(***************************************************************************)
C18_ChunkOrigin ==
    LET origin == IF Chunked(buffer) THEN 8 ELSE 0
    IN  /\ headerRead => chunkOffset = origin
        /\ lastSeek # NoSeek => lastSeek.landed = lastSeek.target + origin
        /\ ~Chunked(buffer) => chunkOffset = 0

C18_Witness ==
    /\ Chunked(buffer)
    /\ chunkOffset = 8
    /\ lastSeek = [target |-> 12, landed |-> 20]
    /\ tablesRead > 0

----
(***************************************************************************)
(* Vocabulary of the claims about _readTrack.                              *)
(***************************************************************************)
TrackRead == track # NotRead /\ track.end = Returned

\* the sub-sequences the track returned by _readTrack has
SubSequenceIndices == DOMAIN track.timestamps \cup DOMAIN track.values

\* the array is n elements read from the buffer, none of them the placeholder
IsDecoded(array, n) == Len(array) = n /\ \A k \in 1 .. n : array[k] # 0

IsPlaceholder(array, n) == Len(array) = n /\ \A k \in 1 .. n : array[k] = 0

\* sub-sequence i is embedded: its data was decoded and it has no deferred descriptor
EmbeddedCase(i) ==
    /\ sequences[i].flags = M2_SEQUENCE_EMBEDDED_DATA
    /\ i \in DOMAIN track.timestamps => IsDecoded(track.timestamps[i], trackHeader.length)
    /\ i \in DOMAIN track.values
       => IsDecoded(track.values[i], trackHeader.length * getItemSize(trackHeader.type))
    /\ i \notin DOMAIN track.externalTimestamps
    /\ i \notin DOMAIN track.externalValues

\* sub-sequence i is external: its data is a placeholder of the declared length and the
\* (length, offset) of its inner descriptor is recorded
ExternalCase(i) ==
    /\ i \in DOMAIN track.timestamps
       => /\ IsPlaceholder(track.timestamps[i], trackHeader.length)
          /\ i \in DOMAIN track.externalTimestamps
          /\ track.externalTimestamps[i].length = trackHeader.length
          /\ track.externalTimestamps[i].offset = InnerOffset("timestamps", i)
    /\ i \in DOMAIN track.values
       => /\ IsPlaceholder(track.values[i], trackHeader.length * getItemSize(trackHeader.type))
          /\ i \in DOMAIN track.externalValues
          /\ track.externalValues[i].length = trackHeader.length
          /\ track.externalValues[i].offset = InnerOffset("values", i)
    /\ DOMAIN track.externalTimestamps \cup DOMAIN track.externalValues \subseteq SubSequenceIndices
    /\ i \in DOMAIN track.externalTimestamps \cup DOMAIN track.externalValues

(***************************************************************************)
(* C19. Every sub-sequence of a track returned by _readTrack is either     *)
(* embedded (flag set, data decoded, no deferred descriptor) or external   *)
(* (zero placeholder of the declared length, descriptor recorded), never   *)
(* both and never neither.                                                 *)
(***************************************************************************)
C19_EmbeddedOrExternal ==
    TrackRead
    => \A i \in SubSequenceIndices : EmbeddedCase(i) # ExternalCase(i)

C19_Witness ==
    /\ TrackRead
    /\ trackHeader.length > 0
    /\ \E i, j \in SubSequenceIndices : EmbeddedCase(i) /\ ExternalCase(j)

----
(***************************************************************************)
(* C21. When the entries of a chunked file, after a first whole entry, do  *)
(* not end exactly at the end of the buffer, _readChunks raises no error:  *)
(* the scan stops and the chunks recorded so far are returned.             *)
(***************************************************************************)
C21_ScanToleratesMismatch ==
    (/\ call.fn = "_readChunks"
     /\ returned # NotRead
     /\ call.file.byteLength >= EntryStart(call.file.entries, 2)
     /\ call.file.byteLength # EntryStart(call.file.entries, Len(call.file.entries) + 1))
    => /\ returned.end = Returned
       /\ returned.scanned.end = Returned

\* C22: saveState / restoreState are a LIFO stack over the position only: when a reader has
\* restored, the position is the one at its matching saveState, the stack is at the depth the
\* reader was entered with, and chunkOffset is the origin of the file, whatever was read,
\* moved to and nested in between
C22_SavedPositionsAreLifo ==
    /\ chunkOffset = (IF buffer[1] = "MD21" THEN 8 ELSE 0)
    /\ (frames # <<>> /\ Top.pc = "restored") =>
           /\ offset = Top.savedAt
           /\ Len(_savedOffsets) = Top.depth
    /\ (frames = <<>> /\ loadPc = "tables") => _savedOffsets = <<>>

\* an extract function nested in _readTrack nested in a table reader has restored, in a
\* chunked file, to a position other than the ones its callers saved
C22_Witness ==
    /\ Len(frames) = 3
    /\ Top.pc = "restored"
    /\ Top.steps > 0
    /\ chunkOffset = 8
    /\ offset = Top.savedAt
    /\ Top.savedAt # frames[1].savedAt
    /\ Top.savedAt # frames[2].savedAt

\* C23: isStaticTrack(track) is true exactly when the track has one sub-sequence whose single
\* timestamp is 0: more sub-sequences, more or fewer timestamps, or a non-zero timestamp make
\* it false
C23_StaticIffSingleZero ==
    (call.fn = "isStaticTrack" /\ returned # NotRead) =>
        (returned.value <=> call.track.timestamps = <<(<<0>>)>>)

\* isStaticTrack was applied to the track of one sub-sequence with the single timestamp 0
C23_Witness ==
    /\ call.fn = "isStaticTrack"
    /\ returned # NotRead
    /\ returned.value
    /\ call.track.timestamps = <<(<<0>>)>>

\* the first slot at which the mip walk stops: its offset is 0, or the width or the height
\* floor-divided by 2 per earlier slot is 0; one past the last slot if there is none
MipStop(header) ==
    LET stops == {i \in 1 .. MipSlots :
                      \/ header.mipOffsets[i] = 0
                      \/ header.width \div (2 ^ (i - 1)) = 0
                      \/ header.height \div (2 ^ (i - 1)) = 0}
    IN  IF stops = {} THEN MipSlots + 1 ELSE CHOOSE i \in stops : \A j \in stops : i <= j

\* C24: the mip walk exposes exactly the slots before the first one whose offset is 0 or whose
\* current width or height is 0, mip i tagged (floor(width / 2^i), floor(height / 2^i))
\* without clamping to 1; non-zero offsets after the stop are ignored, so offsets
\* [100, 0, 200, ...] give only mip 0
C24_MipsBeforeFirstStop ==
    (call.fn = "mipWalk" /\ returned # NotRead /\ returned.end = Returned) =>
        LET header == call.file.header
            mipmaps == returned.mipmaps
        IN  /\ Len(header.mipOffsets) = MipSlots
            /\ Len(mipmaps) = MipStop(header) - 1
            /\ \A i \in 1 .. Len(mipmaps) :
                   /\ mipmaps[i].offset = header.mipOffsets[i]
                   /\ mipmaps[i].width = header.width \div (2 ^ (i - 1))
                   /\ mipmaps[i].height = header.height \div (2 ^ (i - 1))
            /\ (/\ SubSeq(header.mipOffsets, 1, 3) = <<100, 0, 200>>
                /\ header.width > 0
                /\ header.height > 0) => Len(mipmaps) = 1

\* the walk over offsets [100, 0, 200, ...] returned mip 0 alone
C24_Witness ==
    /\ call.fn = "mipWalk"
    /\ returned # NotRead
    /\ returned.end = Returned
    /\ SubSeq(call.file.header.mipOffsets, 1, 3) = <<100, 0, 200>>
    /\ call.file.header.mipOffsets[MipSlots] = 200
    /\ call.file.header.width = 3
    /\ Len(returned.mipmaps) = 1

\* C25: every int16 component c of a compressed quaternion decodes to a fraction over 32767
\* whose numerator lies in [-32767, 32767]: c + 32768 for c < 0 and c - 32767 otherwise, so
\* 32767 gives 0, -32768 gives 0 and 0 gives -32767
C25_ComponentInUnitRange ==
    (call.fn = "extractValues" /\ returned # NotRead) =>
        LET c == IF call.word < 32768 THEN call.word ELSE call.word - 65536
            n == returned.value.numerator
        IN  /\ c \in -32768 .. 32767
            /\ returned.value.denominator = 32767
            /\ n \in -32767 .. 32767
            /\ c < 0 => n - c = 32768
            /\ c >= 0 => c - n = 32767
            /\ c = 32767 => n = 0
            /\ c = -32768 => n = 0
            /\ c = 0 => n = -32767

\* the component -32768 was decoded, to 0
C25_Witness ==
    /\ call.fn = "extractValues"
    /\ returned # NotRead
    /\ call.word = 32768
    /\ returned.value.numerator = 0

\* C26: a track bound to a global sequence (globalSequence >= 0, one sub-sequence) is decoded
\* as embedded data whatever the flags of the named sequences are and whether or not there is
\* any named sequence: its sub-sequence is read from the buffer and nothing is deferred
C26_GlobalTrackEmbedded ==
    (/\ track # NotRead
     /\ version >= M2_VERSION_WRATH_OF_THE_LICH_KING
     /\ trackHeader.globalSequence >= 0
     /\ trackHeader.timestampsLength = 1
     /\ trackHeader.valuesLength = 1
     /\ trackHeader.length > 0)
    => /\ track.end = Returned
       /\ IsDecoded(track.timestamps[1], trackHeader.length)
       /\ IsDecoded(track.values[1], trackHeader.length * getItemSize(trackHeader.type))
       /\ DOMAIN track.externalTimestamps = {}
       /\ DOMAIN track.externalValues = {}

\* C27: isStaticTrack is never true of a track whose single sub-sequence is deferred: the
\* zero-filled placeholder of declared length 1 is not taken for a keyframe at time 0
C27_DeferredNeverStatic ==
    (/\ TrackRead
     /\ Len(track.timestamps) = 1
     /\ 1 \in DOMAIN track.externalTimestamps)
    => ~isStaticTrack(track)

\* the first track of the definition made a keyframe track for sequence j
FirstCollected(j) ==
    /\ ~isStaticTrack(call.first)
    /\ call.first.globalSequence < 0
    /\ j \in DOMAIN call.first.timestamps
    /\ Len(call.first.timestamps[j]) > 0

\* sub-sequence j of the second track is empty and reached by its loop
SecondEmpty(j) ==
    /\ ~isStaticTrack(call.second)
    /\ j \in DOMAIN call.second.timestamps
    /\ Len(call.second.timestamps[j]) = 0

\* C28: in _buildColors and _buildTextureTransforms an empty sub-sequence j of the second track
\* (alpha, rotation) is skipped without effect: the keyframe track collected for sequence j
\* from the first track (color, translation) is still in data.tracks[ j ] afterwards
C28_EmptySubSequenceKeepsSibling ==
    (call.fn \in {"_buildColors", "_buildTextureTransforms"} /\ returned # NotRead) =>
        \A j \in 1 .. MaxOuterLength :
            (FirstCollected(j) /\ SecondEmpty(j)) =>
                /\ j \in DOMAIN returned.tracks
                /\ \E property \in {".color", ".offset"} : returned.tracks[j] = <<property>>

\* C29: the textures array is index-aligned with the texture definitions: entry i is the
\* texture fetched for definition i, also when another definition has an empty filename and
\* the file has no TXID chunk
C29_TexturesIndexAligned ==
    (call.fn = "_loadTextures" /\ returned # NotRead) =>
        \A i \in DOMAIN returned.textures : returned.textures[i].definition = i

\* C30: the hydration flag of a deferred key changes only from not initialized to initialized,
\* and only in the buffer callback of a fetch for that key that succeeded: no play, stop,
\* global-sequence operation, failed fetch or repeated completion resets it or sets the flag
\* of another key
C30_FlagOnlyRisesOnOwnFetch ==
    [][\A k \in DOMAIN _externalSequencesInitialized :
           /\ k \in DOMAIN _externalSequencesInitialized'
           /\ _externalSequencesInitialized[k] => _externalSequencesInitialized'[k]
           /\ (~_externalSequencesInitialized[k] /\ _externalSequencesInitialized'[k]) =>
                  /\ \E f \in DOMAIN buffers : f.key = k /\ buffers' = BagRemove(buffers, f)
                  /\ lastOp' = Op("bufferResolved", k, Fulfilled)]_vars

\* the buffer callback of a fetch has initialized a deferred key while a second buffer of
\* that key is still to be handled and another deferred key is not initialized
C30_Witness ==
    /\ lastOp.op = "bufferResolved"
    /\ lastOp.key \in DOMAIN _externalSequencesInitialized
    /\ _externalSequencesInitialized[lastOp.key]
    /\ \E k \in DOMAIN _externalSequencesInitialized : ~_externalSequencesInitialized[k]
    /\ \E f \in DOMAIN buffers : f.key = lastOp.key
====
